---- MODULE Spec2Model ----
(***************************************************************************)
(* A model of lesser_pandas.h: class Column, the helpers is_integer and    *)
(* is_float, and class DataFrame.                                          *)
(*                                                                         *)
(* A std::string is a sequence of one-character strings, so that getline,  *)
(* stoi, stod and to_string are computed character by character.  The      *)
(* alphabet of the modelled inputs is the digits, "+", "-", ".", "e", " ", *)
(* ",", the newline and the letters of the column names and text values;   *)
(* hexadecimal floats and the inf/nan literals of strtod need letters      *)
(* outside of it.  A double is its value times Scale, an integer: the      *)
(* values used have at most six decimals and their sums are exact.         *)
(***************************************************************************)
EXTENDS Integers, Naturals, Sequences, FiniteSets, TLC

VARIABLES input, df, filtered_df, call

vars == <<input, df, filtered_df, call>>

\* ------------------------------------------------------------------------
\* Bounds of the model
\* ------------------------------------------------------------------------

\* Most data rows of an input file of the table specifications.
MaxRows == 2

\* Most data rows of an input file of the type-inference specification.
MaxInferRows == 2

\* Most data rows of an input file of the column specification.
MaxColRows == 2

\* Most (old, new) pairs of one rename call.
MaxPairs == 2

\* Most calls the program makes on its frames after the constructor.
MaxCalls == 2

\* ------------------------------------------------------------------------
\* Program constants
\* ------------------------------------------------------------------------

\* std::numeric_limits<int>::max() of stoi's result type.
INT_MAX == 2147483647

\* Fixed-point scale of a double: six decimals, those of to_string(double).
Scale == 1000000

\* ------------------------------------------------------------------------
\* Characters and strings
\* ------------------------------------------------------------------------

DigitChars == <<"0", "1", "2", "3", "4", "5", "6", "7", "8", "9">>

IsDigit(c) == \E i \in 1..10 : DigitChars[i] = c

DigitVal(c) == (CHOOSE i \in 1..10 : DigitChars[i] = c) - 1

\* The character codes std::string compares by.
Ascii(c) ==
    CASE c = " " -> 32 [] c = "+" -> 43 [] c = "," -> 44 [] c = "-" -> 45
      [] c = "." -> 46 [] c = "?" -> 63
      [] c = "a" -> 97 [] c = "b" -> 98 [] c = "c" -> 99 [] c = "d" -> 100
      [] c = "e" -> 101 [] c = "i" -> 105 [] c = "n" -> 110
      [] c = "x" -> 120 [] c = "z" -> 122
      [] OTHER -> 48 + DigitVal(c)

\* The characters of the inputs.
Chars == {" ", "+", ",", "-", ".", "?", "a", "b", "c", "d", "e", "i", "n",
          "x", "z"}
            \cup {DigitChars[i] : i \in 1..10}

\* The character of a code.
Chr(n) == CHOOSE c \in Chars : Ascii(c) = n

\* isspace of the "C" locale.
IsSpace(c) == c \in {" ", "\t", "\n", "\r", "\f"}

\* The text from index i on.
Tail_(s, i) == SubSeq(s, i, Len(s))

\* The fields joined by the separator.
RECURSIVE Join(_, _)
Join(fields, sep) ==
    IF fields = <<>> THEN <<>>
    ELSE IF Len(fields) = 1 THEN fields[1]
    ELSE fields[1] \o sep \o Join(Tail(fields), sep)

\* First index >= i of s whose character is not white space (Len(s)+1: none).
RECURSIVE SkipSpace(_, _)
SkipSpace(s, i) ==
    IF i <= Len(s) /\ IsSpace(s[i]) THEN SkipSpace(s, i + 1) ELSE i

\* First index >= i of s whose character is not a digit.
RECURSIVE DigitsEnd(_, _)
DigitsEnd(s, i) ==
    IF i <= Len(s) /\ IsDigit(s[i]) THEN DigitsEnd(s, i + 1) ELSE i

\* strtol's accumulation of the digits s[i..j], as the negated magnitude so
\* that INT_MIN is representable; "ovf" once the magnitude exceeds 2^31.
RECURSIVE NegMagnitude(_, _, _, _)
NegMagnitude(s, i, j, acc) ==
    IF i > j THEN [ovf |-> FALSE, neg |-> acc]
    ELSE LET d == DigitVal(s[i])
         IN IF acc < -214748364 \/ (acc = -214748364 /\ d > 8)
            THEN [ovf |-> TRUE, neg |-> 0]
            ELSE NegMagnitude(s, i + 1, j, acc * 10 - d)

\* std::stoi(s, &pos): white space, an optional sign, decimal digits.
\* err is "invalid_argument" (no digits), "out_of_range" (not an int) or
\* "none"; pos is the number of characters consumed.
stoi(s) ==
    LET i0 == SkipSpace(s, 1)
        signed == i0 <= Len(s) /\ s[i0] \in {"+", "-"}
        minus == signed /\ s[i0] = "-"
        i1 == IF signed THEN i0 + 1 ELSE i0
        i2 == DigitsEnd(s, i1)
        m == NegMagnitude(s, i1, i2 - 1, 0)
    IN IF i2 = i1 THEN [err |-> "invalid_argument", val |-> 0, pos |-> 0]
       ELSE IF m.ovf \/ (~minus /\ m.neg < -INT_MAX)
            THEN [err |-> "out_of_range", val |-> 0, pos |-> 0]
            ELSE [err |-> "none",
                  val |-> IF minus THEN m.neg ELSE -m.neg,
                  pos |-> i2 - 1]

\* is_integer: stoi does not throw and consumes the whole string.
is_integer(s) ==
    LET r == stoi(s) IN r.err = "none" /\ r.pos = Len(s)

\* The shape strtod reads at the front of s: white space, an optional sign,
\* digits with an optional "." (one digit at least), and an exponent when
\* "e" or "E" is followed by an optional sign and a digit.  The indices: i0
\* behind the white space, i1 behind the sign, i2 behind the digits, f2
\* behind the fraction, e1 at the exponent's digits (0: no "e"), e2 behind
\* them.
ShapeRecord(s, i0, i1, i2, f2, e1, e2) ==
    [ok |-> (i2 > i1) \/ (f2 > i2 + 1),
     minus |-> i1 > i0 /\ s[i0] = "-",
     int1 |-> i1, int2 |-> i2 - 1,
     frac1 |-> IF f2 > i2 THEN i2 + 1 ELSE i2, frac2 |-> f2 - 1,
     withE |-> e1 > 0 /\ e2 > e1,
     eminus |-> e1 = f2 + 2 /\ s[f2 + 1] = "-",
     exp1 |-> e1, exp2 |-> e2 - 1,
     pos |-> IF e1 > 0 /\ e2 > e1 THEN e2 - 1 ELSE f2 - 1]

ShapeEnd(s, i0, i1, i2, f2, e1) ==
    ShapeRecord(s, i0, i1, i2, f2, e1, IF e1 > 0 THEN DigitsEnd(s, e1) ELSE 0)

ExpStart(s, f2) ==
    IF f2 <= Len(s) /\ s[f2] \in {"e", "E"}
    THEN (IF f2 + 1 <= Len(s) /\ s[f2 + 1] \in {"+", "-"} THEN f2 + 2 ELSE f2 + 1)
    ELSE 0

ShapeFraction(s, i0, i1, i2, f2) == ShapeEnd(s, i0, i1, i2, f2, ExpStart(s, f2))

ShapeNumber(s, i0, i1, i2) ==
    ShapeFraction(s, i0, i1, i2,
                  IF i2 <= Len(s) /\ s[i2] = "." THEN DigitsEnd(s, i2 + 1) ELSE i2)

ShapeFrom(s, i0) ==
    ShapeNumber(s, i0,
                IF i0 <= Len(s) /\ s[i0] \in {"+", "-"} THEN i0 + 1 ELSE i0,
                DigitsEnd(s, IF i0 <= Len(s) /\ s[i0] \in {"+", "-"} THEN i0 + 1 ELSE i0))

StodShape(s) == ShapeFrom(s, SkipSpace(s, 1))

\* Whether std::stod(s) throws invalid_argument, and the pos it reports.
stod_err(s) == IF StodShape(s).ok THEN "none" ELSE "invalid_argument"

stod_pos(s) == StodShape(s).pos

\* is_float: stod does not throw and consumes the whole string.
is_float(s) == stod_err(s) = "none" /\ stod_pos(s) = Len(s)

RECURSIVE Pow10(_)
Pow10(n) == IF n <= 0 THEN 1 ELSE 10 * Pow10(n - 1)

\* The digits s[i..j] as a natural number.
RECURSIVE DigitsValue(_, _, _, _)
DigitsValue(s, i, j, acc) ==
    IF i > j THEN acc ELSE DigitsValue(s, i + 1, j, acc * 10 + DigitVal(s[i]))

\* The value of the shape p of s, times Scale: six digits of the fraction
\* count.  The values of the Columns stay below INT_MAX / Scale.
StodValue(s, p) ==
    LET nf == p.frac2 - p.frac1 + 1
        mant == DigitsValue(s, p.int1, p.int2, 0) * Scale
                + (IF nf <= 0 THEN 0
                   ELSE IF nf <= 6
                        THEN DigitsValue(s, p.frac1, p.frac2, 0) * Pow10(6 - nf)
                        ELSE DigitsValue(s, p.frac1, p.frac1 + 5, 0))
        ex == IF p.withE THEN DigitsValue(s, p.exp1, p.exp2, 0) ELSE 0
    IN (IF p.minus THEN -1 ELSE 1)
       * (IF p.withE /\ p.eminus THEN mant \div Pow10(ex) ELSE mant * Pow10(ex))

\* The double std::stod(s) returns when it does not throw, times Scale.
stod(s) == StodValue(s, StodShape(s))

\* ------------------------------------------------------------------------
\* Column and DataFrame values
\* ------------------------------------------------------------------------

\* A default-constructed Column: no name, no data, dtype "string".
NewColumn == [name |-> <<>>, data |-> <<>>, dtype |-> "string"]

\* A default-constructed DataFrame.  col_data is a function from the names
\* that are keys of the std::map to Columns; file_dir is not read by any
\* operation and is left out.
EmptyFrame == [columns |-> <<>>, col_data |-> <<>>, row_data |-> <<>>]

\* std::map::find(key) != end().
HasKey(m, k) == k \in DOMAIN m

\* std::map::operator[](key) = value.
MapPut(m, k, v) == [x \in (DOMAIN m) \cup {k} |-> IF x = k THEN v ELSE m[x]]

\* std::map::erase(key).
MapErase(m, k) == [x \in (DOMAIN m) \ {k} |-> m[x]]

\* ------------------------------------------------------------------------
\* DataFrame::DataFrame(string): reading the file
\* ------------------------------------------------------------------------

\* The pieces getline(stream, piece, delim) yields until it fails: the text
\* between delimiters, where an empty piece at the very end of the stream
\* is not yielded (nothing is extracted there, so failbit is set).
RECURSIVE GetLines(_, _)
GetLines(s, delim) ==
    IF s = <<>> THEN <<>>
    ELSE LET hits == {i \in 1..Len(s) : s[i] = delim}
         IN IF hits = {} THEN <<s>>
            ELSE LET i == CHOOSE k \in hits : \A h \in hits : k <= h
                 IN <<SubSeq(s, 1, i - 1)>> \o GetLines(Tail_(s, i + 1), delim)

\* One pass of the loop over a data line: every field is pushed onto the
\* temp_data Column of its position; a row shorter than the header gets one
\* "" pushed onto the Column after its last field.  The fields of a line are
\* at most as many as the header's (temp_data[jdx] past the end is undefined
\* behaviour: no modelled input has such a line).
ReadRow(st, line) ==
    LET fields == GetLines(line, ",")
        n == Len(fields)
        short == n < Len(st.row_data[1])
        temp_row == IF short THEN Append(fields, <<>>) ELSE fields
        temp_data == [j \in DOMAIN st.temp_data |->
                        IF j <= n
                        THEN [st.temp_data[j] EXCEPT !.data = Append(@, fields[j])]
                        ELSE IF short /\ j = n + 1
                             THEN [st.temp_data[j] EXCEPT !.data = Append(@, <<>>)]
                             ELSE st.temp_data[j]]
    IN [temp_data |-> temp_data, row_data |-> Append(st.row_data, temp_row)]

RECURSIVE ReadRows(_, _, _)
ReadRows(st, lines, i) ==
    IF i > Len(lines) THEN st ELSE ReadRows(ReadRow(st, lines[i]), lines, i + 1)

\* The inference loop over one Column's data: missing elements are skipped,
\* and the loop stops once both flags are false.
RECURSIVE InferFlags(_, _, _, _)
InferFlags(data, i, all_int, all_float) ==
    IF i > Len(data) THEN [all_int |-> all_int, all_float |-> all_float]
    ELSE IF Len(data[i]) = 0 THEN InferFlags(data, i + 1, all_int, all_float)
    ELSE LET ai == all_int /\ is_integer(data[i])
             af == all_float /\ is_float(data[i])
         IN IF ~ai /\ ~af THEN [all_int |-> FALSE, all_float |-> FALSE]
            ELSE InferFlags(data, i + 1, ai, af)

\* InferDtype with the float answer given before the int one.
InferDtype_FloatFirst(data) ==
    LET f == InferFlags(data, 1, TRUE, TRUE)
    IN IF f.all_float THEN "float" ELSE IF f.all_int THEN "int" ELSE "string"

InferDtype(data) ==
    LET f == InferFlags(data, 1, TRUE, TRUE)
    IN IF f.all_int THEN "int" ELSE IF f.all_float THEN "float" ELSE "string"

\* col_data[col.name] = col for the Columns of temp_data in order: of two
\* Columns of one name the later one stays.
BuildColData(temp_data) ==
    [nm \in {temp_data[j].name : j \in DOMAIN temp_data} |->
        LET j == CHOOSE k \in DOMAIN temp_data :
                    /\ temp_data[k].name = nm
                    /\ \A h \in DOMAIN temp_data : temp_data[h].name = nm => h <= k
        IN temp_data[j]]

\* The DataFrame the constructor builds from the text of an opened file.
LoadCSV(text) ==
    LET lines == GetLines(text, "\n")
    IN IF lines = <<>> THEN EmptyFrame
       ELSE LET header == GetLines(lines[1], ",")
                st0 == [temp_data |-> [j \in DOMAIN header |->
                                         [NewColumn EXCEPT !.name = header[j]]],
                        row_data |-> <<header>>]
                st == ReadRows(st0, lines, 2)
                typed == [j \in DOMAIN st.temp_data |->
                            [st.temp_data[j] EXCEPT
                                !.dtype = InferDtype(st.temp_data[j].data)]]
            IN [columns |-> header,
                col_data |-> BuildColData(typed),
                row_data |-> st.row_data]

\* ------------------------------------------------------------------------
\* Mutation operations of DataFrame
\* ------------------------------------------------------------------------

\* DataFrame::rename(vec) from pair i on: each pair whose old name is a key
\* is applied at once (the Column is stored under the new name, the old key
\* erased, the columns list rewritten); the first unknown old name throws,
\* with the earlier pairs applied.  The result is [df, err, applied]: the
\* frame, the exception and the number of pairs applied.
RECURSIVE RenameFrom(_, _, _)
RenameFrom(f, vec, i) ==
    IF i > Len(vec) THEN [df |-> f, err |-> "none", applied |-> i - 1]
    ELSE LET old_col_name == vec[i][1]
             new_col_name == vec[i][2]
         IN IF HasKey(f.col_data, old_col_name)
            THEN LET stored == MapPut(f.col_data, new_col_name,
                                   [f.col_data[old_col_name] EXCEPT !.name = new_col_name])
                     erased == MapErase(stored, old_col_name)
                     cols == [j \in DOMAIN f.columns |->
                                IF f.columns[j] = old_col_name
                                THEN new_col_name ELSE f.columns[j]]
                 IN RenameFrom([f EXCEPT !.col_data = erased, !.columns = cols],
                               vec, i + 1)
            ELSE [df |-> f, err |-> "out_of_range", applied |-> i - 1]

rename(f, vec) == RenameFrom(f, vec, 1)

\* The decimal digits of a natural number.
RECURSIVE NatDigits(_)
NatDigits(n) ==
    IF n < 10 THEN <<DigitChars[n + 1]>>
    ELSE NatDigits(n \div 10) \o <<DigitChars[(n % 10) + 1]>>

\* std::to_string(int): "%d".
to_string_int(n) == IF n < 0 THEN <<"-">> \o NatDigits(-n) ELSE NatDigits(n)

\* The six decimals of a fraction given in units of 1/Scale.
SixDigits(fr) ==
    [k \in 1..6 |-> DigitChars[((fr \div Pow10(6 - k)) % 10) + 1]]

\* std::to_string(double): "%f", six decimals.
to_string_double(v) ==
    LET a == IF v < 0 THEN -v ELSE v
    IN (IF v < 0 THEN <<"-">> ELSE <<>>)
         \o NatDigits(a \div Scale) \o <<".">> \o SixDigits(a % Scale)

\* A fill value is [T, v]: the template argument and the value (an int, a
\* double times Scale, or a character for a T that is neither).
\* The text DataFrame::fillna<T> stores: to_string(x) when T is int or
\* double, else the assignment element = x, which stores the one character.
FillText(x) ==
    IF x.T = "int" THEN to_string_int(x.v)
    ELSE IF x.T = "double" THEN to_string_double(x.v)
    ELSE <<Chr(x.v)>>

\* DataFrame::fillna(x): every empty element of every Column of col_data.
fillna(f, x) ==
    [f EXCEPT !.col_data =
        [nm \in DOMAIN f.col_data |->
            [f.col_data[nm] EXCEPT !.data =
                [i \in DOMAIN f.col_data[nm].data |->
                    IF Len(f.col_data[nm].data[i]) = 0
                    THEN FillText(x) ELSE f.col_data[nm].data[i]]]]]

\* vector::erase(begin() + p) for a 0-based p inside the vector.
EraseAt(data, p) == SubSeq(data, 1, p) \o SubSeq(data, p + 2, Len(data))

\* The 0-based indices of the empty elements, ascending.
RECURSIVE MissingIdx(_, _)
MissingIdx(data, i) ==
    IF i > Len(data) THEN <<>>
    ELSE (IF Len(data[i]) = 0 THEN <<i - 1>> ELSE <<>>) \o MissingIdx(data, i + 1)

\* DropFrom without jdx: the indices are not shifted by the rows already
\* erased.
RECURSIVE DropFrom_NoShift(_, _, _, _)
DropFrom_NoShift(cd, removed_idx, k, ub) ==
    IF k > Len(removed_idx) THEN [col_data |-> cd, ub |-> ub]
    ELSE LET p == removed_idx[k]
             bad == {nm \in DOMAIN cd : nm \notin ub /\ p >= Len(cd[nm].data)}
         IN DropFrom_NoShift([nm \in DOMAIN cd |->
                                IF nm \in ub \cup bad THEN cd[nm]
                                ELSE [cd[nm] EXCEPT !.data = EraseAt(@, p)]],
                             removed_idx, k + 1, ub \cup bad)

\* The erase loop of dropna from the k-th removed index on (jdx = k - 1):
\* every Column of col_data loses its element idx - jdx.  A Column too short
\* for that index is erased past its end, which is undefined behaviour: it
\* is collected in ub and left alone here.
RECURSIVE DropFrom(_, _, _, _)
DropFrom(cd, removed_idx, k, ub) ==
    IF k > Len(removed_idx) THEN [col_data |-> cd, ub |-> ub]
    ELSE LET p == removed_idx[k] - (k - 1)
             bad == {nm \in DOMAIN cd : nm \notin ub /\ p >= Len(cd[nm].data)}
         IN DropFrom([nm \in DOMAIN cd |->
                        IF nm \in ub \cup bad THEN cd[nm]
                        ELSE [cd[nm] EXCEPT !.data = EraseAt(@, p)]],
                     removed_idx, k + 1, ub \cup bad)

\* DataFrame::dropna(col).  col_data[col] inserts a default Column under an
\* unknown name.  The result is [df, ub]: the frame, and the Columns erased
\* past their end.  row_data is not touched.
dropna(f, col) ==
    LET cd0 == IF HasKey(f.col_data, col) THEN f.col_data
               ELSE MapPut(f.col_data, col, NewColumn)
        removed_idx == MissingIdx(cd0[col].data, 1)
        r == DropFrom(cd0, removed_idx, 1, {})
    IN [df |-> [f EXCEPT !.col_data = r.col_data], ub |-> r.ub]

\* ------------------------------------------------------------------------
\* DataFrame::save_to_csv
\* ------------------------------------------------------------------------

\* The header of the index column.
IndexName == <<"i", "n", "d", "e", "x">>

\* The positions of columns_to_save whose name is no key of col_data.
NotKeys(f, cols) == {j \in DOMAIN cols : ~HasKey(f.col_data, cols[j])}

\* num_rows: the size of the first saved Column, whose name is a key.
NumRows(f, cols) == IF cols = <<>> THEN 0 ELSE Len(f.col_data[cols[1]].data)

\* The positions of columns_to_save the row loop reads in a row: those before
\* the first whose name is no key (col_data.at throws there).
Reached(f, cols) == {j \in DOMAIN cols : \A h \in 1..j : HasKey(f.col_data, cols[h])}

\* The rows the row loop starts: all of them, or the first only when
\* col_data.at throws in it.
RowsStarted(f, cols) ==
    IF NotKeys(f, cols) = {} THEN 1..NumRows(f, cols)
    ELSE {i \in {1} : NumRows(f, cols) >= 1}

\* The (name, row) pairs at which save_to_csv reads col.data[idx] past the end
\* of a Column: undefined behaviour.
SaveOutOfBounds(f, cols) ==
    IF cols = <<>> \/ 1 \in NotKeys(f, cols) THEN {}
    ELSE {c \in {cols[j] : j \in Reached(f, cols)} \X RowsStarted(f, cols) :
            c[2] > Len(f.col_data[c[1]].data)}

\* The text written for row i (idx = i - 1) of the Column nm: na_rep for an
\* empty value; junk gives what a read past the end yields.
SaveCell(f, nm, i, na_rep, junk) ==
    IF i > Len(f.col_data[nm].data)
    THEN (IF junk[<<nm, i>>] = <<>> THEN na_rep ELSE junk[<<nm, i>>])
    ELSE IF f.col_data[nm].data[i] = <<>> THEN na_rep
    ELSE f.col_data[nm].data[i]

\* The index written before a row's values.
SaveIndex(i, index, sep) == IF index THEN to_string_int(i - 1) \o sep ELSE <<>>

\* The lines of the rows from row i on.
RECURSIVE SaveRows(_, _, _, _, _, _, _)
SaveRows(f, cols, i, index, sep, na_rep, junk) ==
    IF i > NumRows(f, cols) THEN <<>>
    ELSE SaveIndex(i, index, sep)
           \o Join([j \in DOMAIN cols |-> SaveCell(f, cols[j], i, na_rep, junk)], sep)
           \o <<"\n">>
           \o SaveRows(f, cols, i + 1, index, sep, na_rep, junk)

\* What is written of the first row before col_data.at throws at the first
\* position that is no key: the values before it, each with its separator.
SavePartRow(f, cols, index, sep, na_rep, junk) ==
    SaveIndex(1, index, sep)
      \o Join([j \in Reached(f, cols) |-> SaveCell(f, cols[j], 1, na_rep, junk)], sep)
      \o sep

\* The header line.
SaveHeader(cols, index, sep, header) ==
    IF header
    THEN (IF index THEN IndexName \o sep ELSE <<>>) \o Join(cols, sep) \o <<"\n">>
    ELSE <<>>

\* save_to_csv once columns_to_save is cols: [err, what, file], file the text
\* the output file holds after the call.  col_data.at throws for a saved name
\* that is no key: at num_rows for the first, in the first row for a later
\* one; no row is written when the first saved Column has none.
SaveColumns(f, cols, index, sep, header, na_rep, junk) ==
    IF cols # <<>> /\ 1 \in NotKeys(f, cols)
    THEN [err |-> "out_of_range", what |-> "map::at",
          file |-> SaveHeader(cols, index, sep, header)]
    ELSE IF NotKeys(f, cols) # {} /\ NumRows(f, cols) >= 1
    THEN [err |-> "out_of_range", what |-> "map::at",
          file |-> SaveHeader(cols, index, sep, header)
                     \o SavePartRow(f, cols, index, sep, na_rep, junk)]
    ELSE [err |-> "none", what |-> <<>>,
          file |-> SaveHeader(cols, index, sep, header)
                     \o SaveRows(f, cols, 1, index, sep, na_rep, junk)]

\* columns_to_save: the column list, or the selected columns.
ColumnsToSave(f, selected_columns) ==
    IF selected_columns = <<>> THEN f.columns ELSE selected_columns

\* The first selected name that is no key.
FirstNotKey(f, cols) ==
    cols[CHOOSE j \in NotKeys(f, cols) : \A h \in NotKeys(f, cols) : j <= h]

\* DataFrame::save_to_csv on an output file that opens (it is truncated):
\* a selected name that is no key throws before anything is written, with
\* the message "Column not found: " + col_name.
save_to_csv(f, index, sep, header, na_rep, selected_columns, junk) ==
    IF NotKeys(f, selected_columns) # {}
    THEN [err |-> "out_of_range",
          what |-> <<"Column not found: ", FirstNotKey(f, selected_columns)>>,
          file |-> <<>>]
    ELSE SaveColumns(f, ColumnsToSave(f, selected_columns), index, sep, header,
                     na_rep, junk)

\* ------------------------------------------------------------------------
\* DataFrame::operator[](const vector<bool>&): the masked filter
\* ------------------------------------------------------------------------

\* The 1-based positions of the true entries of the mask, ascending.
RECURSIVE TrueIdx(_, _)
TrueIdx(mask, i) ==
    IF i > Len(mask) THEN <<>>
    ELSE (IF mask[i] THEN <<i>> ELSE <<>>) \o TrueIdx(mask, i + 1)

\* The listed Columns the rebuild loop reaches: those before the first listed
\* name that is no key of col_data (col_data.at throws there).
Rebuilt(f) ==
    {f.columns[j] : j \in {k \in DOMAIN f.columns :
        \A h \in 1..k : HasKey(f.col_data, f.columns[h])}}

\* The (column, position) pairs at which the filter reads data[i] past the
\* end of a Column: undefined behaviour.
OutOfBounds(f, mask) ==
    {c \in Rebuilt(f) \X (DOMAIN mask) :
        mask[c[2]] /\ c[2] > Len(f.col_data[c[1]].data)}

\* Whether the mask passes the size check.  data_rows is row_data.size() - 1
\* in size_t: with no row at all it wraps to 2^64 - 1, which no mask has.
MaskAccepted(f, mask) == Len(f.row_data) >= 1 /\ Len(mask) = Len(f.row_data) - 1

\* FilterSelf with the header row pushed to the source's own row buffer.
FilterSelf_PushesHeader(f, mask) ==
    [f EXCEPT !.row_data = Append(@, f.row_data[1])]

\* The frame this is after the call: the filter writes to the copy only.
FilterSelf(f, mask) == f

\* The filter: [err, what, df].  The size check throws; the copy of this
\* gets the header row and the selected rows pushed after the rows it
\* already holds; col_data.at(name) throws for a listed name that is no key;
\* every listed Column is rebuilt from the selected positions, where junk
\* gives what a read past the end yields.
FilterMask(f, mask, junk) ==
    IF ~MaskAccepted(f, mask)
    THEN [err |-> "out_of_range", what |-> "Mask size does not match data rows!",
          df |-> EmptyFrame]
    ELSE IF \E j \in DOMAIN f.columns : ~HasKey(f.col_data, f.columns[j])
    THEN [err |-> "out_of_range", what |-> "map::at", df |-> EmptyFrame]
    ELSE LET sel == TrueIdx(mask, 1)
             rows == f.row_data \o <<f.row_data[1]>>
                        \o [k \in DOMAIN sel |-> f.row_data[sel[k] + 1]]
             listed == {f.columns[j] : j \in DOMAIN f.columns}
             filtered_col(nm) ==
                 [name |-> nm,
                  dtype |-> f.col_data[nm].dtype,
                  data |-> [k \in DOMAIN sel |->
                              IF sel[k] <= Len(f.col_data[nm].data)
                              THEN f.col_data[nm].data[sel[k]]
                              ELSE junk[<<nm, sel[k]>>]]]
         IN [err |-> "none", what |-> <<>>,
             df |-> [columns |-> f.columns,
                     col_data |-> [nm \in DOMAIN f.col_data |->
                                     IF nm \in listed THEN filtered_col(nm)
                                     ELSE f.col_data[nm]],
                     row_data |-> rows]]

\* ------------------------------------------------------------------------
\* Column: comparisons, statistics, fillna
\* ------------------------------------------------------------------------

\* std::string's operator<.
RECURSIVE StrLess(_, _)
StrLess(s, t) ==
    IF Len(t) = 0 THEN FALSE
    ELSE IF Len(s) = 0 THEN TRUE
    ELSE IF Ascii(s[1]) < Ascii(t[1]) THEN TRUE
    ELSE IF Ascii(s[1]) > Ascii(t[1]) THEN FALSE
    ELSE StrLess(Tail(s), Tail(t))

CompareOps == {"==", "!=", "<", ">", "<=", ">="}

\* stod(data[i]) op key of the numeric operators.
NumRel(op, v, key) ==
    CASE op = "==" -> v = key
      [] op = "!=" -> v # key
      [] op = "<"  -> v < key
      [] op = ">"  -> v > key
      [] op = "<=" -> v <= key
      [] op = ">=" -> v >= key

\* data[i] op key of the string operators.
StrRel(op, s, key) ==
    CASE op = "==" -> s = key
      [] op = "!=" -> s # key
      [] op = "<"  -> StrLess(s, key)
      [] op = ">"  -> StrLess(key, s)
      [] op = "<=" -> ~StrLess(key, s)
      [] op = ">=" -> ~StrLess(s, key)

\* CompareDouble without the dtype guard.
CompareDouble_NoGuard(col, op, key) ==
    [err |-> "none", what |-> <<>>,
     val |-> [i \in DOMAIN col.data |->
                IF Len(col.data[i]) = 0 THEN FALSE
                ELSE IF stod_err(col.data[i]) # "none" THEN FALSE
                ELSE NumRel(op, stod(col.data[i]), key)]]

\* Column::operator==, !=, <, >, <=, >= (const double&): [err, what, val].
\* An empty element and one stod throws for give false.
CompareDouble(col, op, key) ==
    IF col.dtype = "string"
    THEN [err |-> "runtime_error", what |-> "Error: Invalid comparison", val |-> <<>>]
    ELSE [err |-> "none", what |-> <<>>,
          val |-> [i \in DOMAIN col.data |->
                     IF Len(col.data[i]) = 0 THEN FALSE
                     ELSE IF stod_err(col.data[i]) # "none" THEN FALSE
                     ELSE NumRel(op, stod(col.data[i]), key)]]

\* Column::operator==, !=, <, >, <=, >= (const string&): [err, what, val].
CompareString(col, op, key) ==
    IF col.dtype = "float" \/ col.dtype = "int"
    THEN [err |-> "runtime_error", what |-> "Error: Invalid comparison", val |-> <<>>]
    ELSE [err |-> "none", what |-> <<>>,
          val |-> [i \in DOMAIN col.data |-> StrRel(op, col.data[i], key)]]

\* Accumulate with col_size left at data.size() for an empty element.
RECURSIVE Accumulate_KeepsSize(_, _, _, _)
Accumulate_KeepsSize(data, i, acc, col_size) ==
    IF i > Len(data) THEN [err |-> "none", sum |-> acc, col_size |-> col_size]
    ELSE IF Len(data[i]) = 0 THEN Accumulate_KeepsSize(data, i + 1, acc, col_size)
    ELSE IF stod_err(data[i]) # "none"
         THEN [err |-> stod_err(data[i]), sum |-> acc, col_size |-> col_size]
    ELSE Accumulate_KeepsSize(data, i + 1, acc + stod(data[i]), col_size)

\* The loop of sum and mean from element i on: [err, sum, col_size].  Empty
\* elements are skipped and lower col_size; stod's exception leaves the
\* function.
RECURSIVE Accumulate(_, _, _, _)
Accumulate(data, i, acc, col_size) ==
    IF i > Len(data) THEN [err |-> "none", sum |-> acc, col_size |-> col_size]
    ELSE IF Len(data[i]) = 0 THEN Accumulate(data, i + 1, acc, col_size - 1)
    ELSE IF stod_err(data[i]) # "none"
         THEN [err |-> stod_err(data[i]), sum |-> acc, col_size |-> col_size]
    ELSE Accumulate(data, i + 1, acc + stod(data[i]), col_size)

\* The what() of the dtype errors, written without the backquotes around
\* dtype.  sum() throws with the message of mean().
MeanSumType == "Invalid type: Column::mean() expects dtype to be int or float"

SortedType == "Invalid type: Column::Sorted() expects dtype to be int or float"

MinType == "Invalid type: Column::min() expects dtype to be int or float"

MaxType == "Invalid type: Column::max() expects dtype to be int or float"

\* What sum returns or throws after the loop's outcome r.
SumOf(r) ==
    IF r.err = "none" THEN [err |-> "none", what |-> <<>>, val |-> r.sum]
    ELSE [err |-> r.err, what |-> "stod", val |-> <<>>]

\* Column::sum(): [err, what, val].
sum(col) ==
    IF col.dtype = "int" \/ col.dtype = "float"
    THEN SumOf(Accumulate(col.data, 1, 0, Len(col.data)))
    ELSE [err |-> "invalid_argument", what |-> MeanSumType, val |-> <<>>]

\* What mean returns or throws after the loop's outcome r: the quotient
\* sum / col_size as the pair of the two; 0 / 0 is NaN.
MeanOf(r) ==
    IF r.err = "none"
    THEN [err |-> "none", what |-> <<>>,
          val |-> [sum |-> r.sum, col_size |-> r.col_size, nan |-> r.col_size = 0]]
    ELSE [err |-> r.err, what |-> "stod", val |-> <<>>]

\* Column::mean(): [err, what, val].
mean(col) ==
    IF col.dtype = "int" \/ col.dtype = "float"
    THEN MeanOf(Accumulate(col.data, 1, 0, Len(col.data)))
    ELSE [err |-> "invalid_argument", what |-> MeanSumType, val |-> <<>>]

\* std::sort with stod(s1) < stod(s2) on parsable elements: v goes behind
\* the elements that are not greater.
RECURSIVE InsertSorted(_, _)
InsertSorted(result, v) ==
    IF Len(result) = 0 THEN <<v>>
    ELSE IF stod(v) < stod(result[1]) THEN <<v>> \o result
    ELSE <<result[1]>> \o InsertSorted(Tail(result), v)

RECURSIVE SortFrom(_, _, _)
SortFrom(data, i, result) ==
    IF i > Len(data) THEN result
    ELSE SortFrom(data, i + 1, InsertSorted(result, data[i]))

\* Column::sorted(): [err, what, val].  With two elements or more every
\* element is compared, and stod throws for one it cannot parse.
sorted(col) ==
    IF col.dtype = "string"
    THEN [err |-> "invalid_argument", what |-> SortedType, val |-> <<>>]
    ELSE IF Len(col.data) >= 2 /\ \E i \in DOMAIN col.data : stod_err(col.data[i]) # "none"
    THEN [err |-> "invalid_argument", what |-> "stod", val |-> <<>>]
    ELSE [err |-> "none", what |-> <<>>, val |-> SortFrom(col.data, 1, <<>>)]

\* stod(e) of min and max for the element e read.
ExtremeAt(e) ==
    IF stod_err(e) # "none"
    THEN [err |-> stod_err(e), what |-> "stod", val |-> <<>>, ub |-> FALSE]
    ELSE [err |-> "none", what |-> <<>>, val |-> stod(e), ub |-> FALSE]

\* min and max after sorted() gave s.  The element read of an empty vector
\* is undefined behaviour.
ExtremeOf(s, at) ==
    IF s.err # "none" THEN [err |-> s.err, what |-> s.what, val |-> <<>>, ub |-> FALSE]
    ELSE IF Len(s.val) = 0 THEN [err |-> "none", what |-> <<>>, val |-> <<>>, ub |-> TRUE]
    ELSE ExtremeAt(IF at = "front" THEN s.val[1] ELSE s.val[Len(s.val)])

\* Column::min() and max(), at == "front" or "back": [err, what, val, ub].
Extreme(col, at) ==
    IF col.dtype = "string"
    THEN [err |-> "invalid_argument",
          what |-> IF at = "front" THEN MinType ELSE MaxType,
          val |-> <<>>, ub |-> FALSE]
    ELSE ExtremeOf(sorted(col), at)

min(col) == Extreme(col, "front")

max(col) == Extreme(col, "back")

\* static_cast<int>(x) of a T x, put back into the T.
TruncToInt(x) ==
    IF x.T = "double"
    THEN [x EXCEPT !.v = IF @ >= 0 THEN (@ \div Scale) * Scale
                         ELSE -(((-@) \div Scale) * Scale)]
    ELSE x

\* Column::fillna(x).
ColumnFillna(col, x) ==
    LET y == IF x.T \in {"int", "double"} /\ col.dtype = "int" THEN TruncToInt(x) ELSE x
    IN [col EXCEPT !.data =
          [i \in DOMAIN col.data |->
              IF Len(col.data[i]) = 0 THEN FillText(y) ELSE col.data[i]]]

\* DataFrame::operator[](const string&): [err, what].
ColumnAt(f, key) ==
    IF HasKey(f.col_data, key) THEN [err |-> "none", what |-> <<>>]
    ELSE [err |-> "out_of_range", what |-> "Column not found!"]

\* ------------------------------------------------------------------------
\* Input files
\* ------------------------------------------------------------------------

\* The text of a file whose lines each end with a newline.
RECURSIVE FileText(_)
FileText(lines) ==
    IF lines = <<>> THEN <<>> ELSE lines[1] \o <<"\n">> \o FileText(Tail(lines))

\* All sequences over S of length 0..n.
SeqUpTo(S, n) == UNION {[1..k -> S] : k \in 0..n}

\* Values of the type-inference inputs: missing, integers (signed, with
\* leading white space, at and past the int range), floats (with a bare
\* dot, with an exponent), and text (trailing garbage, a bare sign).
InferValues ==
    { <<>>,
      <<"1">>, <<"-", "2">>, <<"+", "3">>, <<" ", "4">>,
      <<"2", "1", "4", "7", "4", "8", "3", "6", "4", "7">>,
      <<"2", "1", "4", "7", "4", "8", "3", "6", "4", "8">>,
      <<"1", ".", "5">>, <<"2", ".">>, <<".", "5">>, <<"1", "e", "2">>,
      <<"a">>, <<"1", "a">>, <<"1", " ">>, <<"-">>, <<"1", "e">> }

\* One-column files: the header "x" and up to MaxInferRows one-field rows.
InferFiles ==
    {FileText(<<<<"x">>>> \o rows) : rows \in SeqUpTo(InferValues, MaxInferRows)}

\* Column names: two that headers use and one that no header has.
NameA == <<"a">>

NameB == <<"b">>

NameC == <<"c">>

Names == {NameA, NameB, NameC}

Headers == {<<NameA>>, <<NameA, NameB>>}

\* Values of the table inputs by position in the row: the first field is
\* missing or an integer, a later one is missing or a text.
TableValues(j) == IF j = 1 THEN {<<>>, <<"1">>} ELSE {<<>>, <<"z">>}

\* The rows of fields under a header.
TableRows(h) == {fs \in [DOMAIN h -> {<<>>, <<"1">>, <<"z">>}] :
                    \A j \in DOMAIN h : fs[j] \in TableValues(j)}

\* The line of a data row with the given fields: the fields joined by ",".
\* A missing trailing field is omitted with its separator when the line has
\* an earlier non-empty field ("1" for the fields "1" and ""), and written
\* with its separator otherwise ("," for two missing fields).
RowLine(fields) ==
    LET n == Len(fields)
    IN IF n >= 2 /\ fields[n] = <<>> /\ fields[n - 1] # <<>>
       THEN Join(SubSeq(fields, 1, n - 1), <<",">>)
       ELSE Join(fields, <<",">>)

\* Files of the table specification: a header and up to MaxRows data rows,
\* each with as many fields as the header or without the trailing one.
TableFiles ==
    UNION {{FileText(<<Join(h, <<",">>)>> \o rows) :
              rows \in SeqUpTo({RowLine(fs) : fs \in TableRows(h)}, MaxRows)} :
           h \in Headers}

\* Whether every data row of the input has as many fields as the header or
\* omits only the trailing field.
WellFormed(text) ==
    LET lines == GetLines(text, "\n")
    IN lines # <<>> /\
       LET n == Len(GetLines(lines[1], ","))
       IN \A i \in 2..Len(lines) :
            LET k == Len(GetLines(lines[i], ","))
            IN k = n \/ k = n - 1

\* All masks of up to MaxRows + 1 entries.
Masks == SeqUpTo(BOOLEAN, MaxRows + 1)

\* Arguments of dropna: a column of every header, and a name that is no
\* column until a rename makes it one.
DropNames == {NameA, NameC}

\* Fill values: fillna(0) and fillna(1.5).
FillValues == {[T |-> "int", v |-> 0], [T |-> "double", v |-> 1500000]}

\* Pairs of rename: to the column's own name, to a new name, to the name of
\* another column; each has an unknown old name in some frame.
RenamePairs == {<<NameA, NameA>>, <<NameA, NameC>>, <<NameB, NameA>>}

\* Arguments of rename: up to MaxPairs (old, new) pairs.
RenameArgs == SeqUpTo(RenamePairs, MaxPairs)

\* What a read past the end of a vector may yield, and what a vector erased
\* past its end may hold.
JunkValues == {<<>>, <<"?">>}

JunkData == SeqUpTo(JunkValues, 1)

\* ------------------------------------------------------------------------
\* The last call: the operation, the frame it was called on, its argument,
\* the exception it threw ("none": it returned) and what it returned.
\* ------------------------------------------------------------------------

\* n counts the calls, ret is a small result (the exception's message, the
\* number of pairs rename applied), ub records that some call so far ran into
\* undefined behaviour, and err "terminated" that the process ended there.
NoCall ==
    [op |-> "none", tbl |-> "df", err |-> "none", ret |-> <<>>, n |-> 0,
     ub |-> FALSE]

Call(op, tbl, err, ret) ==
    [op |-> op, tbl |-> tbl, err |-> err, ret |-> ret, n |-> call.n + 1,
     ub |-> call.ub]

CallUB(op, tbl, err, ret) ==
    [op |-> op, tbl |-> tbl, err |-> err, ret |-> ret, n |-> call.n + 1,
     ub |-> TRUE]

\* ------------------------------------------------------------------------
\* Type inference: the constructor applied to each input file
\* ------------------------------------------------------------------------

InitInfer ==
    /\ input \in InferFiles
    /\ df = EmptyFrame
    /\ filtered_df = <<>>
    /\ call = NoCall

\* DataFrame df(file): the constructor, on a file that opens.
Construct ==
    /\ call.op = "none"
    /\ df' = LoadCSV(input)
    /\ call' = Call("DataFrame", "df", "none", <<>>)
    /\ UNCHANGED <<input, filtered_df>>

NextInfer == Construct

SpecInfer == InitInfer /\ [][NextInfer]_vars

\* ------------------------------------------------------------------------
\* Table operations on the loaded frame and on the frame the last filter
\* returned (filtered_df holds it; <<>> before the first filter)
\* ------------------------------------------------------------------------

Targets == {"df", "flt"}

Live(t) == t = "df" \/ filtered_df # <<>>

Frame(t) == IF t = "df" THEN df ELSE filtered_df[1]

Store(t, f) ==
    IF t = "df" THEN df' = f /\ UNCHANGED filtered_df
    ELSE filtered_df' = <<f>> /\ UNCHANGED df

Init ==
    /\ input \in TableFiles
    /\ df = LoadCSV(input)
    /\ filtered_df = <<>>
    /\ call = NoCall

\* The program makes up to MaxCalls calls and has not been terminated.
Running == call.err # "terminated" /\ call.n < MaxCalls

Rename(t, vec) ==
    /\ Running /\ Live(t)
    /\ LET r == rename(Frame(t), vec)
       IN /\ Store(t, r.df)
          /\ call' = Call("rename", t, r.err, r.applied)
    /\ UNCHANGED input

Fillna(t, x) ==
    /\ Running /\ Live(t)
    /\ Store(t, fillna(Frame(t), x))
    /\ call' = Call("fillna", t, "none", <<>>)
    /\ UNCHANGED input

\* The frame after dropna erased the Columns of ub past their end, when the
\* process goes on: they hold what g gives.
Corrupted(f, ub, g) ==
    [f EXCEPT !.col_data =
        [nm \in DOMAIN f.col_data |->
            IF nm \in ub THEN [f.col_data[nm] EXCEPT !.data = g[nm]]
            ELSE f.col_data[nm]]]

\* What the Columns of ub may hold after an erase past the end: each its
\* data without the last element (the erase decrements the end pointer), or
\* anything of JunkData.
ErasedPastEnd(f, ub) ==
    [ub -> JunkData] \cup
    {[nm \in ub |-> SubSeq(f.col_data[nm].data, 1, Len(f.col_data[nm].data) - 1)]}

Dropna(t, col) ==
    /\ Running /\ Live(t)
    /\ LET r == dropna(Frame(t), col)
       IN IF r.ub = {}
          THEN /\ Store(t, r.df)
               /\ call' = Call("dropna", t, "none", <<>>)
          ELSE \/ /\ call' = CallUB("dropna", t, "terminated", <<>>)
                  /\ UNCHANGED <<df, filtered_df>>
               \/ \E g \in ErasedPastEnd(r.df, r.ub) :
                    /\ Store(t, Corrupted(r.df, r.ub, g))
                    /\ call' = CallUB("dropna", t, "none", <<>>)
    /\ UNCHANGED input

\* The filter applied to frame t with the given result of its reads: the
\* returned frame becomes filtered_df.
FilterDone(t, mask, r, c) ==
    /\ call' = c
    /\ IF r.err # "none" THEN UNCHANGED <<df, filtered_df>>
       ELSE /\ filtered_df' = <<r.df>>
            /\ df' = IF t = "df" THEN FilterSelf(df, mask) ELSE df

Filter(t, mask) ==
    /\ Running /\ Live(t)
    /\ LET f == Frame(t)
           oob == IF MaskAccepted(f, mask) THEN OutOfBounds(f, mask) ELSE {}
       IN IF oob = {}
          THEN LET r == FilterMask(f, mask, <<>>)
               IN FilterDone(t, mask, r, Call("filter", t, r.err, r.what))
          ELSE \/ /\ call' = CallUB("filter", t, "terminated", <<>>)
                  /\ UNCHANGED <<df, filtered_df>>
               \/ \E junk \in [oob -> JunkValues] :
                    LET r == FilterMask(f, mask, junk)
                    IN FilterDone(t, mask, r, CallUB("filter", t, r.err, r.what))
    /\ UNCHANGED input

\* The program works on the frame it loaded; the frames its filters return
\* are kept but not used further.
Next ==
    \/ \E vec \in RenameArgs : Rename("df", vec)
    \/ \E x \in FillValues : Fillna("df", x)
    \/ \E col \in DropNames : Dropna("df", col)
    \/ \E mask \in Masks : Filter("df", mask)

Spec == Init /\ [][Next]_vars

\* The program works on the frame it loaded and on the frame its last filter
\* returned; it renames one column at a time.
NextDerived ==
    \E t \in Targets :
        \/ \E p \in RenamePairs : Rename(t, <<p>>)
        \/ \E x \in FillValues : Fillna(t, x)
        \/ \E col \in DropNames : Dropna(t, col)
        \/ \E mask \in Masks : Filter(t, mask)

SpecDerived == Init /\ [][NextDerived]_vars

\* ------------------------------------------------------------------------
\* The Column operations on a one-column frame
\* ------------------------------------------------------------------------

\* Values of the Column inputs: missing, integers, a float, a text.
ColValues == {<<>>, <<"1">>, <<"2">>, <<"1", ".", "5">>, <<"a">>}

\* One-column files: the header "a" and up to MaxColRows one-field rows.
ColFiles ==
    {FileText(<<NameA>> \o rows) : rows \in SeqUpTo(ColValues, MaxColRows)}

\* The names a Column is asked for by: the column, and a name of none.
ColKeys == {NameA, NameC}

\* The key of the numeric comparisons, 1.5 in units of 1 / Scale: below,
\* at and above it are values of ColValues.
DoubleKeys == {1500000}

\* Keys of the string comparisons: the empty string, and "1", with values
\* of ColValues before, at and behind it.
StringKeys == {<<>>, <<"1">>}

\* Fill values of Column::fillna: 0, 1.5 and the character 'x'.
ColFillValues == FillValues \cup {[T |-> "char", v |-> 120]}

\* What a read of the first element of an empty vector lets min and max
\* return.
JunkNumbers == {0}

InitCol ==
    /\ input \in ColFiles
    /\ df = LoadCSV(input)
    /\ filtered_df = <<>>
    /\ call = NoCall

\* The result r of the operation on df[k], or the error of df[k].
OnColumn(k, r) ==
    LET a == ColumnAt(df, k)
    IN IF a.err # "none" THEN [err |-> a.err, what |-> a.what, val |-> <<>>, ub |-> FALSE]
       ELSE r

ColRet(k, rel, r) == [col |-> k, rel |-> rel, what |-> r.what, val |-> r.val]

\* df[k] op key with a double key.
CompareNum(k, op, key) ==
    /\ Running
    /\ LET r == OnColumn(k, CompareDouble(df.col_data[k], op, key))
       IN call' = Call("compare_double", "df", r.err, ColRet(k, op, r))
    /\ UNCHANGED <<input, df, filtered_df>>

\* df[k] op key with a string key.
CompareStr(k, op, key) ==
    /\ Running
    /\ LET r == OnColumn(k, CompareString(df.col_data[k], op, key))
       IN call' = Call("compare_string", "df", r.err, ColRet(k, op, r))
    /\ UNCHANGED <<input, df, filtered_df>>

Mean(k) ==
    /\ Running
    /\ LET r == OnColumn(k, mean(df.col_data[k]))
       IN call' = Call("mean", "df", r.err, ColRet(k, <<>>, r))
    /\ UNCHANGED <<input, df, filtered_df>>

Sum(k) ==
    /\ Running
    /\ LET r == OnColumn(k, sum(df.col_data[k]))
       IN call' = Call("sum", "df", r.err, ColRet(k, <<>>, r))
    /\ UNCHANGED <<input, df, filtered_df>>

Sorted(k) ==
    /\ Running
    /\ LET r == OnColumn(k, sorted(df.col_data[k]))
       IN call' = Call("sorted", "df", r.err, ColRet(k, <<>>, r))
    /\ UNCHANGED <<input, df, filtered_df>>

\* min and max: the read of an empty sorted vector ends the process, or
\* yields bytes stod throws for, or bytes it reads a number from.
ExtremeDone(op, k, r) ==
    IF r.ub
    THEN \/ call' = CallUB(op, "df", "terminated", ColRet(k, <<>>, r))
         \/ call' = CallUB(op, "df", "invalid_argument",
                           ColRet(k, <<>>, [r EXCEPT !.what = "stod"]))
         \/ \E v \in JunkNumbers :
               call' = CallUB(op, "df", "none", ColRet(k, <<>>, [r EXCEPT !.val = v]))
    ELSE call' = Call(op, "df", r.err, ColRet(k, <<>>, r))

Min(k) ==
    /\ Running
    /\ ExtremeDone("min", k, OnColumn(k, min(df.col_data[k])))
    /\ UNCHANGED <<input, df, filtered_df>>

Max(k) ==
    /\ Running
    /\ ExtremeDone("max", k, OnColumn(k, max(df.col_data[k])))
    /\ UNCHANGED <<input, df, filtered_df>>

\* df[k].fillna(x).
ColFillna(k, x) ==
    /\ Running
    /\ LET a == ColumnAt(df, k)
       IN IF a.err # "none"
          THEN /\ call' = Call("col_fillna", "df", a.err,
                               [col |-> k, rel |-> <<>>, what |-> a.what, val |-> <<>>])
               /\ df' = df
          ELSE /\ call' = Call("col_fillna", "df", "none",
                               [col |-> k, rel |-> <<>>, what |-> <<>>, val |-> <<>>])
               /\ df' = [df EXCEPT !.col_data[k] = ColumnFillna(@, x)]
    /\ UNCHANGED <<input, filtered_df>>

NextCol ==
    \E k \in ColKeys :
        \/ \E op \in CompareOps, key \in DoubleKeys : CompareNum(k, op, key)
        \/ \E op \in CompareOps, key \in StringKeys : CompareStr(k, op, key)
        \/ Mean(k)
        \/ Sum(k)
        \/ Sorted(k)
        \/ Min(k)
        \/ Max(k)
        \/ \E x \in ColFillValues : ColFillna(k, x)

SpecCol == InitCol /\ [][NextCol]_vars

\* ------------------------------------------------------------------------
\* The table operations together with Column::fillna on a Column of the
\* loaded frame, with an int or a double fill value
\* ------------------------------------------------------------------------

NextFill ==
    \/ Next
    \/ \E k \in DropNames, x \in FillValues : ColFillna(k, x)

SpecFill == Init /\ [][NextFill]_vars

\* ------------------------------------------------------------------------
\* Saving the loaded frame and constructing a frame from the saved file
\* (filtered_df holds that frame)
\* ------------------------------------------------------------------------

\* The selected_columns arguments: none (all columns), and a name that is a
\* column only after a rename or a dropna.
SaveSelections == {<<>>, <<NameC>>}

\* What save_to_csv(file, index, ",", true, "", selected_columns) did:
\* ret is [what, file, index, selected], with the text of the output file.
SaveDone(t, index, selected_columns, r, c) ==
    call' = [c EXCEPT !.ret = [what |-> r.what, file |-> r.file,
                               index |-> index, selected |-> selected_columns]]

\* t.save_to_csv(file, index, ",", true, "", selected_columns).  A read past
\* the end of a Column ends the process or yields some value.
Save(t, index, selected_columns) ==
    /\ Running /\ Live(t)
    /\ LET f == Frame(t)
           oob == IF NotKeys(f, selected_columns) # {} THEN {}
                  ELSE SaveOutOfBounds(f, ColumnsToSave(f, selected_columns))
       IN IF oob = {}
          THEN LET r == save_to_csv(f, index, <<",">>, TRUE, <<>>, selected_columns, <<>>)
               IN SaveDone(t, index, selected_columns, r,
                           Call("save_to_csv", t, r.err, <<>>))
          ELSE \/ call' = CallUB("save_to_csv", t, "terminated", <<>>)
               \/ \E junk \in [oob -> JunkValues] :
                    LET r == save_to_csv(f, index, <<",">>, TRUE, <<>>,
                                         selected_columns, junk)
                    IN SaveDone(t, index, selected_columns, r,
                                CallUB("save_to_csv", t, r.err, <<>>))
    /\ UNCHANGED <<input, df, filtered_df>>

\* DataFrame(file) on the file the last call saved; ret stays that of the
\* save.
Reload ==
    /\ call.op = "save_to_csv" /\ call.err = "none"
    /\ filtered_df' = <<LoadCSV(call.ret.file)>>
    /\ call' = [call EXCEPT !.op = "DataFrame", !.tbl = "file", !.n = @ + 1]
    /\ UNCHANGED <<input, df>>

\* The program renames, fills and drops on the frame it loaded, saves it and
\* loads the saved file.
NextSave ==
    \/ \E p \in RenamePairs : Rename("df", <<p>>)
    \/ \E x \in FillValues : Fillna("df", x)
    \/ \E col \in DropNames : Dropna("df", col)
    \/ \E index \in BOOLEAN, sel \in SaveSelections : Save("df", index, sel)
    \/ Reload

SpecSave == Init /\ [][NextSave]_vars

\* ------------------------------------------------------------------------
\* Terms of the claims
\* ------------------------------------------------------------------------

\* Every Column the frame holds has n values.
AllLength(f, n) == \A nm \in DOMAIN f.col_data : Len(f.col_data[nm].data) = n

\* The frame has a row count: it holds a Column, and its Columns are equally
\* long.
HasRowCount(f) ==
    DOMAIN f.col_data # {} /\
    \A nm \in DOMAIN f.col_data : AllLength(f, Len(f.col_data[nm].data))

RowCount(f) == Len(f.col_data[CHOOSE nm \in DOMAIN f.col_data : TRUE].data)

CountTrue(m) == Cardinality({i \in DOMAIN m : m[i]})

\* The index of the k-th true entry of m.
KthTrue(m, k) ==
    CHOOSE i \in DOMAIN m : m[i] /\ Cardinality({j \in 1..i : m[j]}) = k

\* data reduced to the entries at the true positions of m, in order.
Retained(data, m) == [k \in 1..CountTrue(m) |-> data[KthTrue(m, k)]]

\* res is src filtered by m: the same column list, names and dtypes, and of
\* every Column the values at the true positions of m.
IsFiltered(src, m, res) ==
    /\ res.columns = src.columns
    /\ DOMAIN res.col_data = DOMAIN src.col_data
    /\ \A nm \in DOMAIN src.col_data :
         /\ res.col_data[nm].name = src.col_data[nm].name
         /\ res.col_data[nm].dtype = src.col_data[nm].dtype
         /\ res.col_data[nm].data = Retained(src.col_data[nm].data, m)

\* The two frames have the same columns, order, names, dtypes and values.
SameTable(f, g) == f.columns = g.columns /\ f.col_data = g.col_data

AllTrue(n) == [i \in 1..n |-> TRUE]

\* The mask of the non-empty elements.
Present(data) == [i \in DOMAIN data |-> data[i] # <<>>]

\* The non-empty elements.
NonMissing(data) == {data[i] : i \in {j \in DOMAIN data : data[j] # <<>>}}

\* The value parses wholly as the dtype; every string is a text.
ParsesAs(v, dtype) ==
    CASE dtype = "int" -> is_integer(v)
      [] dtype = "float" -> is_float(v)
      [] OTHER -> TRUE

\* An Integer or Float Column as the data model has it: the dtype is int or
\* float and every non-missing value is wholly a number.
NumberColumn(col) ==
    /\ col.dtype \in {"int", "float"}
    /\ \A v \in NonMissing(col.data) : is_float(v)

\* The indices of the non-missing values.
PresentIdx(data) == {i \in DOMAIN data : data[i] # <<>>}

\* The sum of the numbers at the indices S.
RECURSIVE SumOver(_, _)
SumOver(data, S) ==
    IF S = {} THEN 0
    ELSE LET i == CHOOSE j \in S : TRUE
         IN stod(data[i]) + SumOver(data, S \ {i})

\* The two sequences hold the same values, each as often.
SameValues(s, t) ==
    /\ Len(s) = Len(t)
    /\ \A i \in DOMAIN s :
         Cardinality({j \in DOMAIN s : s[j] = s[i]})
            = Cardinality({j \in DOMAIN t : t[j] = s[i]})

\* The non-missing values of the sequence ascend numerically.
Ascending(s) ==
    \A i, j \in PresentIdx(s) : i < j => stod(s[i]) <= stod(s[j])

\* The names of the list are pairwise distinct.
Distinct(names) ==
    \A i, j \in DOMAIN names : names[i] = names[j] => i = j

\* g has the column "index" and then the columns of f, in order, each with
\* the name, the values and the dtype it has in f.
RoundTrip(f, g) ==
    /\ g.columns = <<IndexName>> \o f.columns
    /\ \A j \in DOMAIN f.columns :
         /\ HasKey(f.col_data, f.columns[j])
         /\ HasKey(g.col_data, f.columns[j])
         /\ g.col_data[f.columns[j]].name = f.columns[j]
         /\ g.col_data[f.columns[j]].data = f.col_data[f.columns[j]].data
         /\ g.col_data[f.columns[j]].dtype = f.col_data[f.columns[j]].dtype

\* The names of the column list are the keys of the mapping, and every
\* Column is stored under its name.
NamesAreKeys(f) ==
    /\ {f.columns[j] : j \in DOMAIN f.columns} = DOMAIN f.col_data
    /\ \A nm \in DOMAIN f.col_data : f.col_data[nm].name = nm

\* The call of this step returned, and no call so far ran into undefined
\* behaviour.
Succeeds == call'.n = call.n + 1 /\ call'.err = "none" /\ ~call'.ub

\* Every non-missing value of every Column parses as the Column's dtype.
DtypeHolds(f) ==
    \A nm \in DOMAIN f.col_data :
        \A v \in NonMissing(f.col_data[nm].data) : ParsesAs(v, f.col_data[nm].dtype)

\* ------------------------------------------------------------------------
\* C1.  For a Table whose Columns all have length n and every mask m of
\* length n, the masked filter returns a Table with as many rows as m has
\* true entries, every Column holding the source's values at the true
\* positions of m in order, and with the source's column list, names and
\* dtypes.
\* ------------------------------------------------------------------------
C1_FilterReturnsMaskedRows ==
    [][\A mask \in Masks :
         (Filter("df", mask) /\ AllLength(df, Len(mask)))
            => /\ call'.err = "none"
               /\ filtered_df' # <<>>
               /\ IsFiltered(df, mask, filtered_df'[1])]_vars

\* What holds of the code: whenever the filter returns for such a Table and
\* mask, the returned Table is the filtered one.  (The filter does not always
\* return: C3.)
C1_ReturnedFrameIsFiltered ==
    [][\A mask \in Masks :
         (Filter("df", mask) /\ AllLength(df, Len(mask)) /\ call'.err = "none")
            => IsFiltered(df, mask, filtered_df'[1])]_vars

\* A filter of a two-row frame returned one row.
C1_Witness ==
    /\ call.op = "filter" /\ call.err = "none" /\ ~call.ub
    /\ HasRowCount(df) /\ RowCount(df) = 2
    /\ HasRowCount(filtered_df[1]) /\ RowCount(filtered_df[1]) = 1

\* ------------------------------------------------------------------------
\* C2.  Row-count invariant: after ingestion of an input whose data rows have
\* as many fields as the header or omit only the trailing one, and after any
\* sequence of rename, fillna, dropna and masked filter, all Columns a Table
\* holds have the same number of values.
\* ------------------------------------------------------------------------
C2_RowCountInvariant ==
    WellFormed(input) =>
        /\ \A nm \in DOMAIN df.col_data : AllLength(df, Len(df.col_data[nm].data))
        /\ \A k \in DOMAIN filtered_df :
             \A nm \in DOMAIN filtered_df[k].col_data :
                AllLength(filtered_df[k], Len(filtered_df[k].col_data[nm].data))

\* A dropna of a name that is no column left the frame with Columns of
\* different lengths.
C2_Witness ==
    /\ WellFormed(input)
    /\ call.op = "dropna" /\ call.err = "none" /\ ~call.ub
    /\ \E nm \in DOMAIN df.col_data : ~AllLength(df, Len(df.col_data[nm].data))

\* ------------------------------------------------------------------------
\* C3.  For every Table reachable from ingestion by rename, fillna, dropna and
\* masked filter, the filter raises the range error exactly when the mask's
\* length differs from the Table's current row count, the common length of
\* its Columns.
\* ------------------------------------------------------------------------
C3_RangeErrorIffLengthDiffers ==
    [][\A mask \in Masks :
         (Filter("df", mask) /\ HasRowCount(df))
            => (call'.err = "out_of_range" <=> Len(mask) # RowCount(df))]_vars

\* A filter threw on its size check for a frame whose row buffer holds more
\* data rows than its Columns.
C3_Witness ==
    /\ call.op = "filter" /\ call.tbl = "df" /\ call.err = "out_of_range"
    /\ call.ret = "Mask size does not match data rows!"
    /\ ~call.ub
    /\ HasRowCount(df)
    /\ Len(df.row_data) - 1 > RowCount(df)

\* ------------------------------------------------------------------------
\* C4.  Filtering the Table a filter returned with an all-true mask of that
\* Table's row count succeeds and returns an equal Table.
\* ------------------------------------------------------------------------
C4_AllTrueFilterIdempotent ==
    [][(/\ call.op = "filter" /\ call.err = "none" /\ ~call.ub
        /\ filtered_df # <<>>
        /\ HasRowCount(filtered_df[1])
        /\ Filter("flt", AllTrue(RowCount(filtered_df[1]))))
          => /\ call'.err = "none"
             /\ SameTable(filtered_df'[1], filtered_df[1])]_vars

\* A filter of the returned frame threw on its size check; the frame's row
\* buffer holds more data rows than its Columns.
C4_Witness ==
    /\ call.op = "filter" /\ call.tbl = "flt" /\ call.err = "out_of_range"
    /\ call.n = 2 /\ ~call.ub
    /\ HasRowCount(filtered_df[1])
    /\ Len(filtered_df[1].row_data) - 1 > RowCount(filtered_df[1])

\* ------------------------------------------------------------------------
\* C5.  The masked filter leaves its source Table unchanged (column list,
\* Columns, row buffer), and the returned Table is independent of it: a later
\* rename, fillna or dropna on either Table does not change the other.
\* ------------------------------------------------------------------------
C5_FilterFrame ==
    [][/\ (call'.op = "filter" /\ call'.tbl = "df") => df' = df
       /\ (call'.op \in {"rename", "fillna", "dropna"} /\ call'.tbl = "df")
             => filtered_df' = filtered_df
       /\ (call'.op \in {"rename", "fillna", "dropna"} /\ call'.tbl = "flt")
             => df' = df]_vars

\* A fillna on the returned frame filled a value that is still missing in the
\* source.
C5_Witness ==
    /\ call.op = "fillna" /\ call.tbl = "flt" /\ ~call.ub
    /\ \E nm \in DOMAIN df.col_data \cap DOMAIN filtered_df[1].col_data :
         /\ Len(df.col_data[nm].data) = 1
         /\ df.col_data[nm].data[1] = <<>>
         /\ Len(filtered_df[1].col_data[nm].data) = 1
         /\ filtered_df[1].col_data[nm].data[1] # <<>>

\* ------------------------------------------------------------------------
\* C6.  For a Table whose Columns all have equal length and a column c it
\* holds, dropna(c) removes exactly the rows at which c is empty: c has no
\* missing value afterwards, and every Column holds its former values at the
\* surviving indices, in order.
\* ------------------------------------------------------------------------
C6_DropnaRemovesMissingRows ==
    [][\A c \in DropNames :
         (/\ Dropna("df", c)
          /\ HasKey(df.col_data, c)
          /\ AllLength(df, Len(df.col_data[c].data)))
            => /\ call'.err = "none"
               /\ df'.columns = df.columns
               /\ DOMAIN df'.col_data = DOMAIN df.col_data
               /\ \A i \in DOMAIN df'.col_data[c].data : df'.col_data[c].data[i] # <<>>
               /\ \A nm \in DOMAIN df.col_data :
                    df'.col_data[nm].data =
                        Retained(df.col_data[nm].data, Present(df.col_data[c].data))]_vars

\* A dropna removed the first of two rows, and another Column kept the value
\* of the second.
C6_Witness ==
    /\ call.op = "dropna" /\ call.err = "none" /\ ~call.ub /\ call.n = 1
    /\ Len(df.row_data) = 3
    /\ df.row_data[2][1] = <<>>
    /\ HasKey(df.col_data, NameA) /\ HasKey(df.col_data, NameB)
    /\ df.col_data[NameA].data = <<df.row_data[3][1]>>
    /\ df.col_data[NameB].data = <<df.row_data[3][2]>>
    /\ df.row_data[2][2] # df.row_data[3][2]

\* ------------------------------------------------------------------------
\* C7.  At ingestion a Column's dtype is Integer iff every non-missing value
\* parses wholly as an integer, Float iff it is not Integer and every
\* non-missing value parses wholly as a float, and Text otherwise; missing
\* values do not count.
\* ------------------------------------------------------------------------
C7_DtypeInference ==
    call.op = "DataFrame" =>
        \A nm \in DOMAIN df.col_data :
            LET c == df.col_data[nm]
                allInt == \A v \in NonMissing(c.data) : is_integer(v)
                allFloat == \A v \in NonMissing(c.data) : is_float(v)
            IN /\ c.dtype = "int" <=> allInt
               /\ c.dtype = "float" <=> (~allInt /\ allFloat)
               /\ c.dtype = "string" <=> (~allInt /\ ~allFloat)

\* A Column with a missing value and a float that is no integer was typed
\* Float.
C7_Witness ==
    /\ call.op = "DataFrame"
    /\ \E nm \in DOMAIN df.col_data :
         /\ df.col_data[nm].dtype = "float"
         /\ <<>> \in {df.col_data[nm].data[i] : i \in DOMAIN df.col_data[nm].data}
         /\ \E v \in NonMissing(df.col_data[nm].data) : ~is_integer(v)

\* ------------------------------------------------------------------------
\* C8.  A Column all of whose values are missing, also one with no data rows,
\* is given dtype Text by ingestion.
\* ------------------------------------------------------------------------
C8_AllMissingIsText ==
    call.op = "DataFrame" =>
        \A nm \in DOMAIN df.col_data :
            NonMissing(df.col_data[nm].data) = {} => df.col_data[nm].dtype = "string"

\* A Column of missing values only was typed Integer.
C8_Witness ==
    /\ call.op = "DataFrame"
    /\ \E nm \in DOMAIN df.col_data :
         /\ Len(df.col_data[nm].data) >= 1
         /\ NonMissing(df.col_data[nm].data) = {}
         /\ df.col_data[nm].dtype = "int"

\* ------------------------------------------------------------------------
\* C9.  In the mask of each of the six numeric and six string comparison
\* operators the entry of every row whose value is missing is false,
\* whatever the operator and the key.
\* ------------------------------------------------------------------------
C9_MissingYieldsFalse ==
    (call.op \in {"compare_double", "compare_string"} /\ call.err = "none") =>
        \A i \in DOMAIN df.col_data[call.ret.col].data :
            df.col_data[call.ret.col].data[i] = <<>> => ~call.ret.val[i]

\* What holds of the code: the numeric operators give false for a missing
\* value.
C9_NumericMissingYieldsFalse ==
    (call.op = "compare_double" /\ call.err = "none") =>
        \A i \in DOMAIN df.col_data[call.ret.col].data :
            df.col_data[call.ret.col].data[i] = <<>> => ~call.ret.val[i]

\* A string comparison gave true for a missing value.
C9_Witness ==
    /\ call.op = "compare_string" /\ call.err = "none"
    /\ \E i \in DOMAIN df.col_data[call.ret.col].data :
         df.col_data[call.ret.col].data[i] = <<>> /\ call.ret.val[i]

\* ------------------------------------------------------------------------
\* C10.  mean, sum, sorted, min, max and every numeric comparison on a Text
\* Column, and every string comparison on an Integer or Float Column, fail
\* with the type error and leave the Column unchanged; on a Column of
\* compatible dtype a comparison returns a mask with exactly one entry per
\* row.
\* ------------------------------------------------------------------------
C10_TypeMismatchAndMaskLength ==
    [][(call'.n = call.n + 1 /\ HasKey(df.col_data, call'.ret.col)) =>
          LET col == df.col_data[call'.ret.col]
          IN /\ (col.dtype = "string" /\ call'.op \in {"mean", "sum", "sorted", "min", "max"})
                   => /\ call'.err = "invalid_argument"
                      /\ call'.ret.what \in {MeanSumType, SortedType, MinType, MaxType}
                      /\ df' = df
             /\ (col.dtype = "string" /\ call'.op = "compare_double")
                   => /\ call'.err = "runtime_error"
                      /\ call'.ret.what = "Error: Invalid comparison"
                      /\ df' = df
             /\ (col.dtype \in {"int", "float"} /\ call'.op = "compare_string")
                   => /\ call'.err = "runtime_error"
                      /\ call'.ret.what = "Error: Invalid comparison"
                      /\ df' = df
             /\ (col.dtype \in {"int", "float"} /\ call'.op = "compare_double")
                   => /\ call'.err = "none"
                      /\ Len(call'.ret.val) = Len(col.data)
             /\ (col.dtype = "string" /\ call'.op = "compare_string")
                   => /\ call'.err = "none"
                      /\ Len(call'.ret.val) = Len(col.data)]_vars

\* A numeric comparison failed on a Text Column of two rows.
C10_Witness ==
    /\ call.op = "compare_double" /\ call.err = "runtime_error"
    /\ HasKey(df.col_data, NameA)
    /\ df.col_data[NameA].dtype = "string"
    /\ Len(df.col_data[NameA].data) = 2

\* ------------------------------------------------------------------------
\* C11.  A rename that fails with the not-found error for an unknown old name
\* leaves the Table in its pre-call state: no earlier pair of the list has
\* been applied to the name-to-Column mapping or to the column order list.
\* ------------------------------------------------------------------------
C11_FailedRenameLeavesTable ==
    [][(call'.n = call.n + 1 /\ call'.op = "rename" /\ call'.err = "out_of_range")
          => df' = df]_vars

\* A rename of two pairs threw at its second pair, and the loaded frame has
\* the new name of the first pair in its column list and in its mapping.
C11_Witness ==
    /\ call.op = "rename" /\ call.err = "out_of_range" /\ call.n = 1
    /\ call.ret = 1
    /\ df.columns # LoadCSV(input).columns
    /\ DOMAIN df.col_data # DOMAIN LoadCSV(input).col_data

\* ------------------------------------------------------------------------
\* C12.  Dtype invariant: after ingestion and after any sequence of
\* Table-level fillna, Column-level fillna with an int or double fill value,
\* dropna, rename and masked filter, every non-missing value of every Column
\* parses as the Column's dtype; filling an Integer Column leaves only values
\* that parse as integers.  (Stated for the runs without undefined
\* behaviour.)
\* ------------------------------------------------------------------------
C12_DtypeInvariant ==
    ~call.ub =>
        /\ DtypeHolds(df)
        /\ \A k \in DOMAIN filtered_df : DtypeHolds(filtered_df[k])

\* Column::fillna filled the missing second value of an Integer Column whose
\* first value is "1" with a text that is no integer.
C12_Witness ==
    /\ call.op = "col_fillna" /\ call.err = "none" /\ call.n = 1 /\ ~call.ub
    /\ LET c == df.col_data[call.ret.col]
       IN /\ c.dtype = "int"
          /\ Len(c.data) = 2
          /\ c.data[1] = <<"1">>
          /\ c.data[2] # <<>>
          /\ ~is_integer(c.data[2])

\* ------------------------------------------------------------------------
\* C13.  For an Integer or Float Column with at least one non-missing value,
\* sum() is the sum of the non-missing values and mean() is that sum divided
\* by the number of non-missing values, not by the number of rows; neither
\* changes the Column.
\* ------------------------------------------------------------------------
C13_SumAndMeanSkipMissing ==
    [][(/\ call'.n = call.n + 1
        /\ call'.op \in {"sum", "mean"}
        /\ HasKey(df.col_data, call'.ret.col)
        /\ NumberColumn(df.col_data[call'.ret.col])
        /\ PresentIdx(df.col_data[call'.ret.col].data) # {})
          => LET data == df.col_data[call'.ret.col].data
                 total == SumOver(data, PresentIdx(data))
             IN /\ call'.err = "none"
                /\ call'.op = "sum" => call'.ret.val = total
                /\ call'.op = "mean" =>
                      /\ call'.ret.val.sum = total
                      /\ call'.ret.val.col_size = Cardinality(PresentIdx(data))
                      /\ ~call'.ret.val.nan
                /\ df' = df]_vars

\* mean() of a Column of two rows, one of them missing, divided the value of
\* the other by 1.
C13_Witness ==
    /\ call.op = "mean" /\ call.err = "none" /\ ~call.ub
    /\ HasKey(df.col_data, call.ret.col)
    /\ LET data == df.col_data[call.ret.col].data
       IN /\ Len(data) = 2
          /\ Cardinality(PresentIdx(data)) = 1
          /\ call.ret.val.col_size = 1
          /\ call.ret.val.sum # 0

\* ------------------------------------------------------------------------
\* C14.  For every non-empty Integer or Float Column, with or without
\* missing values, sorted() returns a copy of the values in ascending numeric
\* order and leaves the Column unchanged, and min() and max() return the
\* first and the last element of that sorted copy.
\* ------------------------------------------------------------------------
C14_SortedMinMax ==
    [][(/\ call'.n = call.n + 1
        /\ call'.op \in {"sorted", "min", "max"}
        /\ HasKey(df.col_data, call'.ret.col)
        /\ NumberColumn(df.col_data[call'.ret.col])
        /\ Len(df.col_data[call'.ret.col].data) >= 1)
          => LET col == df.col_data[call'.ret.col]
                 copy == sorted(col)
             IN /\ call'.err = "none"
                /\ df' = df
                /\ copy.err = "none"
                /\ SameValues(copy.val, col.data)
                /\ Ascending(copy.val)
                /\ call'.op = "sorted" => call'.ret.val = copy.val
                /\ call'.op = "min" => call'.ret.val = stod(copy.val[1])
                /\ call'.op = "max" => call'.ret.val = stod(copy.val[Len(copy.val)])]_vars

\* What holds of the code: on a non-empty Integer or Float Column without
\* missing values sorted() returns the ascending copy, min() and max() its
\* first and last element, and the Column is unchanged.
C14_SortedWithoutMissing ==
    [][(/\ call'.n = call.n + 1
        /\ call'.op \in {"sorted", "min", "max"}
        /\ HasKey(df.col_data, call'.ret.col)
        /\ NumberColumn(df.col_data[call'.ret.col])
        /\ Len(df.col_data[call'.ret.col].data) >= 1
        /\ PresentIdx(df.col_data[call'.ret.col].data)
              = DOMAIN df.col_data[call'.ret.col].data)
          => LET col == df.col_data[call'.ret.col]
                 copy == sorted(col)
             IN /\ call'.err = "none"
                /\ df' = df
                /\ copy.err = "none"
                /\ SameValues(copy.val, col.data)
                /\ Ascending(copy.val)
                /\ call'.op = "sorted" => call'.ret.val = copy.val
                /\ call'.op = "min" => call'.ret.val = stod(copy.val[1])
                /\ call'.op = "max" => call'.ret.val = stod(copy.val[Len(copy.val)])]_vars

\* sorted() of the loaded Integer or Float Column of two rows, a number and a
\* missing value, threw stod's exception.
C14_Witness ==
    /\ call.op = "sorted" /\ call.n = 1 /\ ~call.ub
    /\ call.err = "invalid_argument"
    /\ call.ret.what = "stod"
    /\ HasKey(df.col_data, call.ret.col)
    /\ LET col == df.col_data[call.ret.col]
       IN /\ NumberColumn(col)
          /\ Len(col.data) = 2
          /\ Cardinality(PresentIdx(col.data)) = 1

\* ------------------------------------------------------------------------
\* C15.  Round trip: for a Table with distinct column names none of which is
\* "index", save_to_csv with header and index, the default separator and an
\* empty missing-value token succeeds, and ingestion of the written file
\* yields a Table with the column "index" followed by the original columns in
\* order and under their names, every value (missing ones too) preserved and
\* every dtype re-inferred identically.  (Stated for the runs without
\* undefined behaviour.)
\* ------------------------------------------------------------------------
C15_SaveLoadRoundTrip ==
    [][(/\ call'.n = call.n + 1
        /\ ~call'.ub
        /\ Distinct(df.columns)
        /\ \A j \in DOMAIN df.columns : df.columns[j] # IndexName)
          => /\ (/\ call'.op = "save_to_csv"
                 /\ call'.ret.index /\ call'.ret.selected = <<>>)
                   => call'.err = "none"
             /\ (/\ call'.op = "DataFrame"
                 /\ call'.ret.index /\ call'.ret.selected = <<>>)
                   => RoundTrip(df, filtered_df'[1])]_vars

\* What holds of the code: the round trip of the Table as ingestion built
\* it, before any other call.
C15_RoundTripOfLoadedFrame ==
    [][(/\ call'.n = call.n + 1
        /\ df = LoadCSV(input))
          => /\ (/\ call'.op = "save_to_csv" /\ call.n = 0
                 /\ call'.ret.index /\ call'.ret.selected = <<>>)
                   => call'.err = "none"
             /\ (/\ call'.op = "DataFrame" /\ call.n = 1
                 /\ call'.ret.index /\ call'.ret.selected = <<>>)
                   => RoundTrip(df, filtered_df'[1])]_vars

\* The frame loaded from the file saved after a fillna has all the values of
\* the saved frame, and types a column Float that the saved frame has as
\* Integer.
C15_Witness ==
    /\ call.op = "DataFrame" /\ call.tbl = "file" /\ call.n = 3 /\ ~call.ub
    /\ call.ret.index /\ call.ret.selected = <<>>
    /\ Distinct(df.columns)
    /\ filtered_df[1].columns = <<IndexName>> \o df.columns
    /\ \A j \in DOMAIN df.columns :
         filtered_df[1].col_data[df.columns[j]].data = df.col_data[df.columns[j]].data
    /\ \E j \in DOMAIN df.columns :
         /\ df.col_data[df.columns[j]].dtype = "int"
         /\ filtered_df[1].col_data[df.columns[j]].dtype = "float"

\* ------------------------------------------------------------------------
\* C16.  Column names stay unique: a Table ingested from a header of pairwise
\* distinct names has no name twice in its column order list after any
\* sequence of successful rename, fillna, dropna and masked-filter
\* operations, a rename to the name of another column included.  Stated as:
\* ingestion gives distinct names, and every successful operation on a Table
\* of distinct names leaves the names of every Table distinct.
\* ------------------------------------------------------------------------
C16_ColumnNamesUnique ==
    [][(Succeeds /\ Distinct(df.columns)
                 /\ \A k \in DOMAIN filtered_df : Distinct(filtered_df[k].columns))
          => /\ Distinct(df'.columns)
             /\ \A k \in DOMAIN filtered_df' : Distinct(filtered_df'[k].columns)]_vars

\* The first call on the loaded frame, a rename of a column to the name of
\* another one, returned and left the column list with one name twice.
C16_Witness ==
    /\ call.op = "rename" /\ call.err = "none" /\ call.n = 1 /\ ~call.ub
    /\ Distinct(LoadCSV(input).columns)
    /\ Len(df.columns) = 2
    /\ df.columns[1] = df.columns[2]

\* ------------------------------------------------------------------------
\* C17.  After any sequence of successful operations on an ingested Table
\* (rename, also of a column to its own name, fillna, dropna, masked filter)
\* the names of the column order list are the keys of the name-to-Column
\* mapping and every Column's name field is its key.  Stated as: ingestion
\* gives such a Table, and every successful operation on such a Table leaves
\* every Table such.
\* ------------------------------------------------------------------------
C17_ColumnListMatchesMapping ==
    [][(Succeeds /\ NamesAreKeys(df)
                 /\ \A k \in DOMAIN filtered_df : NamesAreKeys(filtered_df[k]))
          => /\ NamesAreKeys(df')
             /\ \A k \in DOMAIN filtered_df' : NamesAreKeys(filtered_df'[k])]_vars

\* The first call on the loaded frame, a rename, returned and left a name in
\* the column list that is no key of the mapping.
C17_Witness ==
    /\ call.op = "rename" /\ call.err = "none" /\ call.n = 1 /\ ~call.ub
    /\ NamesAreKeys(LoadCSV(input))
    /\ df.columns = LoadCSV(input).columns
    /\ \E j \in DOMAIN df.columns : ~HasKey(df.col_data, df.columns[j])

\* ------------------------------------------------------------------------
\* C18.  dropna with a column name the Table does not contain leaves the
\* Table unchanged: no Column is added to or removed from the mapping, no row
\* is removed from any Column, and the column order list is unchanged.
\* ------------------------------------------------------------------------
C18_DropnaUnknownNameNoChange ==
    [][\A c \in DropNames :
         (Dropna("df", c) /\ ~HasKey(df.col_data, c))
            => /\ df'.columns = df.columns
               /\ df'.col_data = df.col_data]_vars

\* The first call on the loaded frame, a dropna, returned and left a Column
\* in the mapping under a name that is no column of the input.
C18_Witness ==
    /\ call.op = "dropna" /\ call.err = "none" /\ call.n = 1 /\ ~call.ub
    /\ ~HasKey(LoadCSV(input).col_data, NameC)
    /\ HasKey(df.col_data, NameC)
    /\ df.col_data[NameC] = NewColumn
    /\ df.columns = LoadCSV(input).columns

====
